---- MODULE Spec2Model ----
(***************************************************************************)
(* Model of the Datastore snippet test harness (CleanupClient, the client  *)
(* fixture, the backoff-wrapped test bodies) and of the two Document AI    *)
(* samples (undeploy_processor_version_sample,                             *)
(* train_processor_version_sample).                                        *)
(*                                                                         *)
(* Three specifications share the module:                                  *)
(*   Spec        one test of TestDatastoreSnippets run under the client    *)
(*               fixture: setup, body (with its retries), teardown.        *)
(*   SpecClient  a CleanupClient object used directly: any appends and     *)
(*               extends to its two lists, then cleanup().                 *)
(*   SpecDocAI   one call of one of the two Document AI samples.           *)
(***************************************************************************)
EXTENDS Integers, Sequences, FiniteSets, TLC

VARIABLES
    test,                \* the test function being run ("" outside Spec)
    pc,                  \* position in fixture / test body / cleanup
    entities_to_delete,  \* CleanupClient.entities_to_delete
    keys_to_delete,      \* CleanupClient.keys_to_delete
    produced,            \* history: keys of entities/keys snippets returned to the test
    now,                 \* seconds since the retry wrapper was entered
    elapsed,             \* the wrapper's `elapsed`, read at the top of its loop
    tries,               \* invocations of the test block so far
    lastInv,             \* how the last invocation ended: "none", "pass", "assert", "error"
    bodyOutcome,         \* what the test call reported: "none", "passed", "failed", "error"
    n,                   \* loop counter of test_cursor_paging
    cleanupCalls,        \* history: number of cleanup() calls
    deleteCalls,         \* history: the key lists passed to delete_multi, in order
    cleanupExc,          \* exception raised inside cleanup(), "none" if none
    fixtureExc,          \* exception that left the client fixture, "none" if none
    sample,              \* Document AI sample being run ("" outside SpecDocAI)
    dpc,                 \* position in the sample
    args,                \* the sample's arguments
    api_endpoint,        \* ClientOptions.api_endpoint built from the location
    request,             \* the request the sample built, "" before
    operation,           \* name of the long-running operation, "" before the request
    opDone,              \* operation.result() returned
    metadataRead,        \* operation.metadata was read
    output,              \* what the sample printed, in order
    raisedExc            \* exception that left the sample, "none" if none

testVars == <<test, pc, entities_to_delete, keys_to_delete, produced, now, elapsed,
              tries, lastInv, bodyOutcome, n, cleanupCalls, deleteCalls, cleanupExc,
              fixtureExc>>
docVars == <<sample, dpc, args, api_endpoint, request, operation, opDone, metadataRead,
             output, raisedExc>>
vars == <<testVars, docVars>>

----------------------------------------------------------------------------
\* Bounds of the model.

\* Longest tracking list followed.
MaxLen == 3
\* Most entities or keys one snippet call returns.
MaxBatch == 2
\* Seconds one invocation of a retried test block takes.
CallSeconds == 100

----------------------------------------------------------------------------
\* Program constants.

\* max_time=240 of backoff.on_exception
MaxTime == 240
\* backoff.expo: factor * base ** k
ExpoBase == 2
\* range(6) in test_cursor_paging
CursorInserts == 6

----------------------------------------------------------------------------
\* Values.

Keys == {"k1", "k2"}

\* What lookup returns when nothing is found.
None == [key |-> "None", nonempty |-> FALSE]

\* A datastore.Entity: a dict (its properties) carrying a key.
Entities == [key : Keys, nonempty : BOOLEAN]

Entries == Entities \cup {None}

\* Python truthiness of an entry of entities_to_delete: None is falsy, and an
\* Entity, being a dict, is falsy when it has no properties.
Truthy(x) == x /= None /\ x.nonempty

\* x.key: AttributeError on None.
KeyAttr(x) == IF x = None THEN "AttributeError" ELSE x.key

SeqsUpTo(S, m) == UNION {[1..k -> S] : k \in 0..m}

Orderings(S) == {s \in [1..Cardinality(S) -> S] :
                    \A i, j \in 1..Cardinality(S) : i /= j => s[i] /= s[j]}

Range(s) == {s[i] : i \in DOMAIN s}

Min(a, b) == IF a < b THEN a ELSE b

----------------------------------------------------------------------------
\* CleanupClient (snippets_test.py 34-47).

\* Faulty variant: the comprehension without its `if x`.
EntityKeysUnfiltered(ents) == {KeyAttr(ents[i]) : i \in DOMAIN ents}

\* {x.key for x in self.entities_to_delete if x}
EntityKeys(ents) == {KeyAttr(ents[i]) : i \in {j \in DOMAIN ents : Truthy(ents[j])}}

\* Faulty variant: keys_to_delete left out of the argument.
DeleteArgsEntitiesOnly(ents, keys) == Orderings(EntityKeys(ents))

\* The argument of delete_multi: list({...}) + list(set(self.keys_to_delete)).
\* A Python set lists its members in an order the program does not choose.
DeleteArgs(ents, keys) ==
    {sa \o sb : sa \in Orderings(EntityKeys(ents)), sb \in Orderings(Range(keys))}

\* Faulty variant: the test forgets to record what it got.
extend_forgotten(list, xs) == list

\* list.append / list.extend on a tracking list.
append(list, x) == Append(list, x)
extend(list, xs) == list \o xs

cleanup_batch ==
    /\ pc = "cleanup"
    /\ pc' = "delete"
    /\ UNCHANGED <<test, entities_to_delete, keys_to_delete, produced, now, elapsed,
                   tries, lastInv, bodyOutcome, n, cleanupCalls, deleteCalls,
                   cleanupExc, fixtureExc>>
    /\ UNCHANGED docVars

cleanup_delete_multi ==
    /\ pc = "delete"
    /\ IF "AttributeError" \in EntityKeys(entities_to_delete)
       THEN \* building the argument raised: delete_multi is not called
            /\ cleanupExc' = "AttributeError"
            /\ pc' = "raised"
            /\ UNCHANGED deleteCalls
       ELSE /\ \E arg \in DeleteArgs(entities_to_delete, keys_to_delete) :
                  deleteCalls' = Append(deleteCalls, arg)
            /\ \E raises \in BOOLEAN :
                  /\ pc' = IF raises THEN "raised" ELSE "commit"
                  /\ cleanupExc' = IF raises THEN "DeleteError" ELSE cleanupExc
    /\ UNCHANGED <<test, entities_to_delete, keys_to_delete, produced, now, elapsed,
                   tries, lastInv, bodyOutcome, n, cleanupCalls, fixtureExc>>
    /\ UNCHANGED docVars

\* batch.commit(retry=retry_policy): returns, or raises what the retry policy does
\* not retry (or its deadline error).
cleanup_commit ==
    /\ pc = "commit"
    /\ \E raises \in BOOLEAN :
          /\ pc' = IF raises THEN "raised" ELSE "returned"
          /\ cleanupExc' = IF raises THEN "CommitError" ELSE cleanupExc
    /\ UNCHANGED <<test, entities_to_delete, keys_to_delete, produced, now, elapsed,
                   tries, lastInv, bodyOutcome, n, cleanupCalls, deleteCalls,
                   fixtureExc>>
    /\ UNCHANGED docVars

cleanup == cleanup_batch \/ cleanup_delete_multi \/ cleanup_commit

----------------------------------------------------------------------------
\* The client fixture (snippets_test.py 50-54).

WrappedTests == {"test_basic_query", "test_projection_query", "test_cursor_paging",
                 "test_namespace_run_query", "test_index_merge_queries"}

Tests == WrappedTests \cup {"test_upsert", "test_lookup", "test_batch_upsert",
                            "test_kindless_query", "test_transactional_update"}

\* @backoff.on_exception(backoff.expo, AssertionError, max_time=240)
Wrapped(t) == t \in WrappedTests

\* client = CleanupClient(PROJECT); yield client
client_setup ==
    /\ pc = "setup"
    /\ entities_to_delete' = <<>>
    /\ keys_to_delete' = <<>>
    /\ pc' = IF test = "test_cursor_paging" THEN "loop" ELSE "call"
    /\ UNCHANGED <<test, produced, now, elapsed, tries, lastInv, bodyOutcome, n,
                   cleanupCalls, deleteCalls, cleanupExc, fixtureExc>>
    /\ UNCHANGED docVars

\* After the yield: client.cleanup()
client_teardown ==
    /\ pc = "teardown"
    /\ cleanupCalls' = cleanupCalls + 1
    /\ pc' = "cleanup"
    /\ UNCHANGED <<test, entities_to_delete, keys_to_delete, produced, now, elapsed,
                   tries, lastInv, bodyOutcome, n, deleteCalls, cleanupExc,
                   fixtureExc>>
    /\ UNCHANGED docVars

\* Faulty variant: a fixture that wraps cleanup() in try/except and drops the error.
Swallowed(exc) == "none"

\* What leaves the fixture when cleanup() raised exc: the fixture has no handler.
Propagated(exc) == exc

client_teardown_end ==
    /\ pc \in {"returned", "raised"}
    /\ test \in Tests
    /\ fixtureExc' = Propagated(cleanupExc)
    /\ pc' = "done"
    /\ UNCHANGED <<test, entities_to_delete, keys_to_delete, produced, now, elapsed,
                   tries, lastInv, bodyOutcome, n, cleanupCalls, deleteCalls,
                   cleanupExc>>
    /\ UNCHANGED docVars

client == client_setup \/ client_teardown \/ client_teardown_end

----------------------------------------------------------------------------
\* Test bodies of TestDatastoreSnippets.  One invocation of a test function is
\* one step: the snippet call (which returns, or raises an SDK error), the
\* recording, the asserts.

\* Python's assert on a condition.
AssertOutcome(cond) == IF cond THEN "pass" ELSE "assert"

\* Seconds an invocation may take.
Durations(t) == IF Wrapped(t) THEN {CallSeconds} ELSE {0}

\* The bookkeeping of one invocation: the wrapper's loop top (tries, elapsed),
\* then the call, ending as `outcome`.
Invoked(outcome) ==
    /\ tries' = tries + 1
    /\ elapsed' = now
    /\ \E d \in Durations(test) : now' = now + d
    /\ lastInv' = outcome
    /\ pc' = "invoked"
    /\ UNCHANGED <<test, bodyOutcome, n, cleanupCalls, deleteCalls, cleanupExc,
                   fixtureExc>>
    /\ UNCHANGED docVars

\* The snippet (or a query made by the test) raised an SDK error.
SnippetRaises ==
    /\ Invoked("error")
    /\ UNCHANGED <<entities_to_delete, keys_to_delete, produced>>

KeysOf(xs) == {xs[i].key : i \in {j \in DOMAIN xs : xs[j] /= None}}

\* task = snippets.upsert(client); entities_to_delete.append(task);
\* assert task; assert task.key.name == "sampleTask"
test_upsert ==
    /\ pc = "call" /\ test = "test_upsert"
    /\ \/ \E task \in Entities, nameOk \in BOOLEAN :
            /\ entities_to_delete' = append(entities_to_delete, task)
            /\ produced' = produced \cup {task.key}
            /\ Invoked(AssertOutcome(Truthy(task) /\ nameOk))
            /\ UNCHANGED keys_to_delete
       \/ SnippetRaises

\* As test_upsert, with a snippet that may find nothing and return None.
test_lookup ==
    /\ pc = "call" /\ test = "test_lookup"
    /\ \/ \E task \in Entries, nameOk \in BOOLEAN :
            /\ entities_to_delete' = append(entities_to_delete, task)
            /\ produced' = produced \cup KeysOf(<<task>>)
            /\ Invoked(AssertOutcome(Truthy(task) /\ nameOk))
            /\ UNCHANGED keys_to_delete
       \/ SnippetRaises

\* tasks = snippets.batch_upsert(client); entities_to_delete.extend(tasks); assert tasks
test_batch_upsert ==
    /\ pc = "call" /\ test = "test_batch_upsert"
    /\ \/ \E tasks \in SeqsUpTo(Entities, MaxBatch) :
            /\ entities_to_delete' = extend(entities_to_delete, tasks)
            /\ produced' = produced \cup KeysOf(tasks)
            /\ Invoked(AssertOutcome(tasks /= <<>>))
            /\ UNCHANGED keys_to_delete
       \/ SnippetRaises

\* The same body under the retry decorator: every retry extends the list again.
test_basic_query ==
    /\ pc = "call" /\ test = "test_basic_query"
    /\ \/ \E tasks \in SeqsUpTo(Entities, MaxBatch) :
            /\ Len(entities_to_delete) + Len(tasks) <= MaxLen
            /\ entities_to_delete' = extend(entities_to_delete, tasks)
            /\ produced' = produced \cup KeysOf(tasks)
            /\ Invoked(AssertOutcome(tasks /= <<>>))
            /\ UNCHANGED keys_to_delete
       \/ SnippetRaises

\* priorities, percents = snippets.projection_query(client);
\* entities_to_delete.extend(client.query(kind="Task").fetch());
\* assert priorities; assert percents
test_projection_query ==
    /\ pc = "call" /\ test = "test_projection_query"
    /\ \/ \E fetched \in SeqsUpTo(Entities, MaxBatch), nonEmpty \in BOOLEAN :
            /\ Len(entities_to_delete) + Len(fetched) <= MaxLen
            /\ entities_to_delete' = extend(entities_to_delete, fetched)
            /\ Invoked(AssertOutcome(nonEmpty))
            /\ UNCHANGED <<keys_to_delete, produced>>
       \/ SnippetRaises

\* for n in range(6): entities_to_delete.append(snippets.insert(client))
test_cursor_paging_insert ==
    /\ pc = "loop" /\ test = "test_cursor_paging"
    /\ n < CursorInserts
    /\ \/ \E task \in {e \in Entities : e.nonempty} :
            /\ entities_to_delete' = append(entities_to_delete, task)
            /\ produced' = produced \cup {task.key}
            /\ n' = n + 1
            /\ UNCHANGED <<pc, bodyOutcome>>
       \/ \* insert raised: the test ends before run_sample
          /\ bodyOutcome' = "error"
          /\ pc' = "teardown"
          /\ UNCHANGED <<entities_to_delete, produced, n>>
    /\ UNCHANGED <<test, keys_to_delete, now, elapsed, tries, lastInv, cleanupCalls,
                   deleteCalls, cleanupExc, fixtureExc>>
    /\ UNCHANGED docVars

\* The loop is over: run_sample() is called.
test_cursor_paging_run ==
    /\ pc = "loop" /\ test = "test_cursor_paging"
    /\ n = CursorInserts
    /\ pc' = "call"
    /\ UNCHANGED <<test, entities_to_delete, keys_to_delete, produced, now, elapsed,
                   tries, lastInv, bodyOutcome, n, cleanupCalls, deleteCalls,
                   cleanupExc, fixtureExc>>
    /\ UNCHANGED docVars

\* run_sample: results = snippets.cursor_paging(client); three asserts on them.
run_sample ==
    /\ pc = "call" /\ test = "test_cursor_paging"
    /\ \/ \E pagesOk \in BOOLEAN :
            /\ Invoked(AssertOutcome(pagesOk))
            /\ UNCHANGED <<entities_to_delete, keys_to_delete, produced>>
       \/ SnippetRaises

\* tasks = snippets.kindless_query(client); assert tasks
test_kindless_query ==
    /\ pc = "call" /\ test = "test_kindless_query"
    /\ \/ \E tasks \in SeqsUpTo(Entities, MaxBatch) :
            /\ produced' = produced \cup KeysOf(tasks)
            /\ Invoked(AssertOutcome(tasks /= <<>>))
            /\ UNCHANGED <<entities_to_delete, keys_to_delete>>
       \/ SnippetRaises

\* keys = snippets.transactional_update(client); keys_to_delete.extend(keys)
test_transactional_update ==
    /\ pc = "call" /\ test = "test_transactional_update"
    /\ \/ \E keys \in SeqsUpTo(Keys, MaxBatch) :
            /\ keys_to_delete' = extend(keys_to_delete, keys)
            /\ produced' = produced \cup Range(keys)
            /\ Invoked("pass")
            /\ UNCHANGED entities_to_delete
       \/ SnippetRaises

\* all_namespaces, filtered_namespaces = snippets.namespace_run_query(client);
\* three asserts on them
test_namespace_run_query ==
    /\ pc = "call" /\ test = "test_namespace_run_query"
    /\ \/ \E namespacesOk \in BOOLEAN :
            /\ Invoked(AssertOutcome(namespacesOk))
            /\ UNCHANGED <<entities_to_delete, keys_to_delete, produced>>
       \/ SnippetRaises

\* snippets.index_merge_queries(client)
test_index_merge_queries ==
    /\ pc = "call" /\ test = "test_index_merge_queries"
    /\ \/ /\ Invoked("pass")
          /\ UNCHANGED <<entities_to_delete, keys_to_delete, produced>>
       \/ SnippetRaises

TestBody ==
    \/ test_upsert \/ test_lookup \/ test_batch_upsert \/ test_basic_query
    \/ test_projection_query \/ test_cursor_paging_insert \/ test_cursor_paging_run
    \/ run_sample \/ test_kindless_query \/ test_transactional_update
    \/ test_namespace_run_query \/ test_index_merge_queries

----------------------------------------------------------------------------
\* What happens after an invocation ended: the backoff wrapper of a decorated
\* test block, or, without a decorator, the return to the test runner.

\* Faulty variant: a wrapper given Exception instead of AssertionError.
RetriesAnyException(t, inv) == Wrapped(t) /\ inv \in {"assert", "error"}

\* on_exception(..., AssertionError, ...): the wrapper handles this outcome.
Retries(t, inv) == Wrapped(t) /\ inv = "assert"

\* Faulty variant: a wrapper that gives up on the first failure.
GiveUpAtOnce(e) == TRUE

\* max_time_exceeded: elapsed >= max_time, elapsed as read at the loop top.
MaxTimeExceeded(e) == e >= MaxTime

\* backoff.expo: 1, 2, 4, ... for the 1st, 2nd, 3rd failure.
ExpoWait(k) == ExpoBase ^ (k - 1)

\* The block passed: its result is returned.
wrapper_return ==
    /\ pc = "invoked" /\ lastInv = "pass"
    /\ bodyOutcome' = "passed"
    /\ pc' = "teardown"
    /\ UNCHANGED <<test, entities_to_delete, keys_to_delete, produced, now, elapsed,
                   tries, lastInv, n, cleanupCalls, deleteCalls, cleanupExc,
                   fixtureExc>>
    /\ UNCHANGED docVars

\* An exception the wrapper does not handle, or handles and gives up on, leaves
\* the test function.
wrapper_raise ==
    /\ pc = "invoked" /\ lastInv \in {"assert", "error"}
    /\ ~Retries(test, lastInv) \/ MaxTimeExceeded(elapsed)
    /\ bodyOutcome' = IF lastInv = "assert" THEN "failed" ELSE "error"
    /\ pc' = "teardown"
    /\ UNCHANGED <<test, entities_to_delete, keys_to_delete, produced, now, elapsed,
                   tries, lastInv, n, cleanupCalls, deleteCalls, cleanupExc,
                   fixtureExc>>
    /\ UNCHANGED docVars

\* seconds = min(jitter(next(wait)), max_time - elapsed); time.sleep(seconds);
\* full jitter draws between 0 and the value.
wrapper_backoff ==
    /\ pc = "invoked"
    /\ Retries(test, lastInv) /\ ~MaxTimeExceeded(elapsed)
    /\ \E jittered \in {0, ExpoWait(tries)} :
          now' = now + Min(jittered, MaxTime - elapsed)
    /\ pc' = "call"
    /\ UNCHANGED <<test, entities_to_delete, keys_to_delete, produced, elapsed,
                   tries, lastInv, bodyOutcome, n, cleanupCalls, deleteCalls,
                   cleanupExc, fixtureExc>>
    /\ UNCHANGED docVars

wrapper == wrapper_return \/ wrapper_raise \/ wrapper_backoff

----------------------------------------------------------------------------
\* Spec: one test under the client fixture.

DocIdle ==
    /\ sample = "" /\ dpc = "idle" /\ args = "" /\ api_endpoint = "" /\ request = ""
    /\ operation = "" /\ opDone = FALSE /\ metadataRead = FALSE
    /\ output = <<>> /\ raisedExc = "none"

ClientFresh ==
    /\ entities_to_delete = <<>> /\ keys_to_delete = <<>> /\ produced = {}
    /\ now = 0 /\ elapsed = 0 /\ tries = 0 /\ lastInv = "none"
    /\ bodyOutcome = "none" /\ n = 0 /\ cleanupCalls = 0 /\ deleteCalls = <<>>
    /\ cleanupExc = "none" /\ fixtureExc = "none"

Init ==
    /\ test \in Tests
    /\ pc = "setup"
    /\ ClientFresh
    /\ DocIdle

Next == client \/ TestBody \/ wrapper \/ cleanup

Spec == Init /\ [][Next]_vars

----------------------------------------------------------------------------
\* SpecClient: a CleanupClient used directly.  Its two lists are public
\* attributes: a caller may append and extend them in any order before cleanup().

entities_append ==
    /\ pc = "client"
    /\ Len(entities_to_delete) < MaxLen
    /\ \E x \in Entries : entities_to_delete' = append(entities_to_delete, x)
    /\ UNCHANGED <<test, pc, keys_to_delete, produced, now, elapsed, tries, lastInv,
                   bodyOutcome, n, cleanupCalls, deleteCalls, cleanupExc, fixtureExc>>
    /\ UNCHANGED docVars

entities_extend ==
    /\ pc = "client"
    /\ \E xs \in SeqsUpTo(Entities, MaxBatch) :
          /\ xs /= <<>>
          /\ Len(entities_to_delete) + Len(xs) <= MaxLen
          /\ entities_to_delete' = extend(entities_to_delete, xs)
    /\ UNCHANGED <<test, pc, keys_to_delete, produced, now, elapsed, tries, lastInv,
                   bodyOutcome, n, cleanupCalls, deleteCalls, cleanupExc, fixtureExc>>
    /\ UNCHANGED docVars

keys_extend ==
    /\ pc = "client"
    /\ \E ks \in SeqsUpTo(Keys, MaxBatch) :
          /\ ks /= <<>>
          /\ Len(keys_to_delete) + Len(ks) <= MaxLen
          /\ keys_to_delete' = extend(keys_to_delete, ks)
    /\ UNCHANGED <<test, pc, entities_to_delete, produced, now, elapsed, tries,
                   lastInv, bodyOutcome, n, cleanupCalls, deleteCalls, cleanupExc,
                   fixtureExc>>
    /\ UNCHANGED docVars

call_cleanup ==
    /\ pc = "client"
    /\ cleanupCalls' = cleanupCalls + 1
    /\ pc' = "cleanup"
    /\ UNCHANGED <<test, entities_to_delete, keys_to_delete, produced, now, elapsed,
                   tries, lastInv, bodyOutcome, n, deleteCalls, cleanupExc,
                   fixtureExc>>
    /\ UNCHANGED docVars

InitClient ==
    /\ test = ""
    /\ pc = "client"
    /\ ClientFresh
    /\ DocIdle

NextClient == entities_append \/ entities_extend \/ keys_extend \/ call_cleanup \/ cleanup

SpecClient == InitClient /\ [][NextClient]_vars

----------------------------------------------------------------------------
\* The Document AI samples.

Locations == {"us", "eu"}

\* f"{location}-documentai.googleapis.com"
Endpoint(loc) == IF loc = "us" THEN "us-documentai.googleapis.com"
                 ELSE "eu-documentai.googleapis.com"

\* train_data_uri / test_data_uri: Optional[str] = None
DataUris == {"None", "gs://bucket/directory/"}

\* The arguments of a call of either sample (the train sample alone takes URIs).
SampleArgs(smp) ==
    [location : Locations,
     train_data_uri : IF smp = "train" THEN DataUris ELSE {"None"},
     test_data_uri : IF smp = "train" THEN DataUris ELSE {"None"}]

\* The request each sample builds from its arguments.
BuildRequest(smp, a) ==
    IF smp = "undeploy"
    THEN [name |-> <<"processorVersions", a.location>>]
    ELSE [parent |-> <<"processors", a.location>>,
          training_documents |-> a.train_data_uri,
          test_documents |-> a.test_data_uri]

OperationNames == {"operations/1", "operations/2"}

\* Errors the SDK raises from a request or from operation.result().
SdkErrors == {"FailedPrecondition", "InvalidArgument", "NotFound", "PermissionDenied"}

\* Faulty variant: except Exception as e.
CaughtAny(e) == TRUE

\* except (FailedPrecondition, InvalidArgument) as e
Caught(e) == e \in {"FailedPrecondition", "InvalidArgument"}

\* An exception raised inside the try block of undeploy_processor_version_sample:
\* print(e.message) and fall off the end, or leave the function.
UndeployExcept(e) ==
    IF Caught(e)
    THEN /\ output' = Append(output, <<"message", e>>)
         /\ dpc' = "returned"
         /\ UNCHANGED raisedExc
    ELSE /\ raisedExc' = e
         /\ dpc' = "raised"
         /\ UNCHANGED output

\* opts, client, name (undeploy 34-42); opts, client, parent, request (train 40-64)
sample_client ==
    /\ dpc = "start"
    /\ api_endpoint' = Endpoint(args.location)
    /\ request' = BuildRequest(sample, args)
    /\ dpc' = "ready"
    /\ UNCHANGED <<sample, args, operation, opDone, metadataRead, output,
                   raisedExc>>
    /\ UNCHANGED testVars

\* operation = client.undeploy_processor_version(name=name)
undeploy_request ==
    /\ sample = "undeploy" /\ dpc = "ready"
    /\ \/ \E name \in OperationNames :
            /\ operation' = name
            /\ dpc' = "requested"
            /\ UNCHANGED <<output, raisedExc>>
       \/ \E e \in SdkErrors :
            /\ UndeployExcept(e)
            /\ UNCHANGED operation
    /\ UNCHANGED <<sample, args, api_endpoint, request, opDone, metadataRead>>
    /\ UNCHANGED testVars

\* print(operation.operation.name)
print_operation_name ==
    /\ dpc = "requested"
    /\ output' = Append(output, <<"name", operation>>)
    /\ dpc' = "printed"
    /\ UNCHANGED <<sample, args, api_endpoint, request, operation, opDone, metadataRead,
                   raisedExc>>
    /\ UNCHANGED testVars

\* operation.result()
undeploy_result ==
    /\ sample = "undeploy" /\ dpc = "printed"
    /\ \/ /\ opDone' = TRUE
          /\ dpc' = "returned"
          /\ UNCHANGED <<output, raisedExc>>
       \/ \E e \in SdkErrors :
            /\ UndeployExcept(e)
            /\ UNCHANGED opDone
    /\ UNCHANGED <<sample, args, api_endpoint, request, operation, metadataRead>>
    /\ UNCHANGED testVars

\* operation = client.train_processor_version(request=request)
train_request ==
    /\ sample = "train" /\ dpc = "ready"
    /\ \/ \E name \in OperationNames :
            /\ operation' = name
            /\ dpc' = "requested"
            /\ UNCHANGED raisedExc
       \/ \E e \in SdkErrors :
            /\ raisedExc' = e
            /\ dpc' = "raised"
            /\ UNCHANGED operation
    /\ UNCHANGED <<sample, args, api_endpoint, request, opDone, metadataRead, output>>
    /\ UNCHANGED testVars

\* Faulty variant: the wait placed before the print of the operation's name.
train_result_unprinted ==
    /\ sample = "train" /\ dpc = "requested"
    /\ \/ /\ opDone' = TRUE
          /\ dpc' = "waited"
          /\ UNCHANGED raisedExc
       \/ \E e \in SdkErrors :
            /\ raisedExc' = e
            /\ dpc' = "raised"
            /\ UNCHANGED opDone
    /\ UNCHANGED <<sample, args, api_endpoint, request, operation, metadataRead, output>>
    /\ UNCHANGED testVars

\* response = documentai.TrainProcessorVersionResponse(operation.result())
train_result ==
    /\ sample = "train" /\ dpc = "printed"
    /\ \/ /\ opDone' = TRUE
          /\ dpc' = "waited"
          /\ UNCHANGED raisedExc
       \/ \E e \in SdkErrors :
            /\ raisedExc' = e
            /\ dpc' = "raised"
            /\ UNCHANGED opDone
    /\ UNCHANGED <<sample, args, api_endpoint, request, operation, metadataRead, output>>
    /\ UNCHANGED testVars

\* metadata = documentai.TrainProcessorVersionMetadata(operation.metadata)
train_metadata ==
    /\ sample = "train" /\ dpc = "waited"
    /\ metadataRead' = TRUE
    /\ dpc' = "metadata"
    /\ UNCHANGED <<sample, args, api_endpoint, request, operation, opDone, output,
                   raisedExc>>
    /\ UNCHANGED testVars

ResultLines == <<"New Processor Version", "Training Set Validation",
                 "Test Set Validation">>

\* The three prints that end train_processor_version_sample, one per step.
train_print_results ==
    /\ sample = "train" /\ dpc = "metadata"
    /\ \E k \in 1..Len(ResultLines) :
          /\ \A i \in 1..Len(ResultLines) :
                (i < k) <=> (\E j \in DOMAIN output : output[j] = <<ResultLines[i], operation>>)
          /\ output' = Append(output, <<ResultLines[k], operation>>)
          /\ dpc' = IF k = Len(ResultLines) THEN "returned" ELSE "metadata"
    /\ UNCHANGED <<sample, args, api_endpoint, request, operation, opDone, metadataRead,
                   raisedExc>>
    /\ UNCHANGED testVars

InitDocAI ==
    /\ sample \in {"undeploy", "train"}
    /\ args \in SampleArgs(sample)
    /\ dpc = "start"
    /\ api_endpoint = "" /\ request = "" /\ operation = "" /\ opDone = FALSE /\ metadataRead = FALSE
    /\ output = <<>> /\ raisedExc = "none"
    /\ test = "" /\ pc = "idle" /\ ClientFresh

NextDocAI ==
    \/ sample_client \/ undeploy_request \/ print_operation_name \/ undeploy_result
    \/ train_request \/ train_result \/ train_metadata \/ train_print_results

SpecDocAI == InitDocAI /\ [][NextDocAI]_vars

----------------------------------------------------------------------------
\* Properties.

\* Positions of the fixture after the test call has returned or raised.
AfterBody == {"teardown", "cleanup", "delete", "commit", "returned", "raised", "done"}

\* Positions of cleanup() after its delete_multi call.
AfterDelete == {"commit", "returned", "raised", "done"}

\* Keys of everything recorded in the two tracking lists.
RecordedKeys == KeysOf(entities_to_delete) \cup Range(keys_to_delete)

\* Keys passed to delete_multi so far.
DeletedKeys == UNION {Range(deleteCalls[c]) : c \in DOMAIN deleteCalls}

NoRepeat(s) == \A i, j \in DOMAIN s : i /= j => s[i] /= s[j]

\* C1: whatever the two tracking lists hold, no key occurs more than once in
\* the list cleanup passes to delete_multi.
C1_NoKeyTwice == \A c \in DOMAIN deleteCalls : NoRepeat(deleteCalls[c])

\* C2: once teardown has run, the key of every recorded entity and every
\* recorded key is among the keys passed to the delete call.
C2_RecordedIsDeleted == pc = "done" => RecordedKeys \subseteq DeletedKeys

\* C3 as claimed: a failure of cleanup does not leave the fixture; a test whose
\* body passed shows no teardown error.
C3_CleanupFailureHidden ==
    (pc = "done" /\ bodyOutcome = "passed") => fixtureExc = "none"

\* C3 as amended: whatever cleanup raised leaves the client fixture unchanged and
\* reaches the test runner; nothing leaves it when cleanup raised nothing; the
\* outcome of the test call itself stays what it was before teardown.
C3_CleanupFailurePropagates ==
    /\ pc = "done" => fixtureExc = cleanupExc
    /\ pc /= "done" => fixtureExc = "none"
    /\ (pc \in AfterBody /\ lastInv = "pass") => bodyOutcome = "passed"

W3_PassedBodyTeardownError ==
    /\ pc = "done" /\ bodyOutcome = "passed"
    /\ cleanupExc = "CommitError" /\ fixtureExc = "CommitError"

\* C4: a retry-wrapped block is invoked again only after an AssertionError with
\* the budget not yet exhausted; its AssertionError reaches the caller only once
\* the 240 seconds are exhausted; success is reported only for a passing
\* invocation, which is the last one.
C4_RetryUntilPassOrBudget ==
    /\ bodyOutcome = "passed" => lastInv = "pass"
    /\ (Wrapped(test) /\ bodyOutcome = "failed") =>
          (lastInv = "assert" /\ elapsed >= MaxTime)
    /\ (pc = "call" /\ tries > 0) =>
          (Wrapped(test) /\ lastInv = "assert" /\ elapsed < MaxTime)
    /\ lastInv = "pass" => pc \in {"invoked"} \cup AfterBody

W4_FailedAfterRetries ==
    /\ Wrapped(test) /\ bodyOutcome = "failed"
    /\ tries >= 2 /\ elapsed >= MaxTime

RecordingTests == {"test_upsert", "test_lookup", "test_batch_upsert",
                   "test_basic_query", "test_cursor_paging",
                   "test_transactional_update"}

NonRecordingTests == {"test_kindless_query", "test_namespace_run_query",
                      "test_index_merge_queries"}

C7_OneCleanupAfterBody ==
    /\ cleanupCalls <= 1 /\ Len(deleteCalls) <= 1
    /\ cleanupCalls = 1 => (bodyOutcome /= "none" /\ pc \in AfterBody \ {"teardown"})
    /\ bodyOutcome /= "none" => pc \in AfterBody
    /\ pc = "teardown" => (cleanupCalls = 0 /\ ENABLED client_teardown)
    /\ pc = "done" =>
          /\ cleanupCalls = 1 /\ Len(deleteCalls) = 1
          /\ Range(deleteCalls[1]) =
                {e.key : e \in {x \in Range(entities_to_delete) : Truthy(x)}}
                \cup Range(keys_to_delete)

W7_CleanupAfterFailedRetries ==
    /\ pc = "done" /\ bodyOutcome = "failed" /\ tries >= 2
    /\ cleanupCalls = 1 /\ Len(deleteCalls) = 1

\* C8: an exception other than AssertionError ends a retry-wrapped block at
\* once: no sleep, no further invocation, and it reaches the caller.
C8_OtherExceptionNotRetried ==
    lastInv = "error" =>
        /\ pc \in {"invoked"} \cup AfterBody
        /\ now = elapsed + (IF Wrapped(test) THEN CallSeconds ELSE 0)
        /\ pc \in AfterBody => bodyOutcome = "error"

W8_ErrorAfterRetry ==
    /\ Wrapped(test) /\ lastInv = "error" /\ tries >= 2
    /\ bodyOutcome = "error" /\ pc = "done"

\* C10: cleanup skips the falsy entries without raising and passes the keys of
\* the other recorded entities and of all recorded keys; with both lists empty
\* it calls delete_multi with an empty list.
C10_FalsySkipped ==
    /\ cleanupExc /= "AttributeError"
    /\ pc \in AfterDelete =>
          /\ Len(deleteCalls) = 1
          /\ Range(deleteCalls[1]) =
                {e.key : e \in {x \in Range(entities_to_delete) : Truthy(x)}}
                \cup Range(keys_to_delete)
          /\ (entities_to_delete = <<>> /\ keys_to_delete = <<>>) =>
                deleteCalls = << <<>> >>

W10_NoneSkipped ==
    /\ pc = "returned" /\ test = ""
    /\ None \in Range(entities_to_delete)
    /\ \E x \in Range(entities_to_delete) : Truthy(x)
    /\ keys_to_delete /= <<>>
    /\ Len(deleteCalls) = 1 /\ Len(deleteCalls[1]) >= 2

Printed(line) == \E i \in DOMAIN output : output[i][1] = line

\* C6: in the undeploy sample FailedPrecondition and InvalidArgument, from the
\* request or from the wait, are printed and the sample returns; every other
\* error leaves the sample.
C6_UndeployErrors ==
    sample = "undeploy" =>
        /\ \A i \in DOMAIN output :
              output[i][1] = "message" =>
                 /\ output[i][2] \in {"FailedPrecondition", "InvalidArgument"}
                 /\ dpc = "returned" /\ raisedExc = "none"
        /\ raisedExc /= "none" =>
              /\ raisedExc \in SdkErrors \ {"FailedPrecondition", "InvalidArgument"}
              /\ dpc = "raised" /\ ~Printed("message")
        /\ (dpc = "returned" /\ ~opDone) => Printed("message")
        /\ dpc = "raised" => raisedExc /= "none"

W6_WaitErrorPrinted ==
    /\ sample = "undeploy" /\ dpc = "returned" /\ operation /= ""
    /\ output = << <<"name", operation>>, <<"message", "InvalidArgument">> >>

\* C9: both samples print the operation's name after the request and before
\* waiting for the result; the train sample reads the metadata and prints the
\* version and the validations only after the wait returned, and prints none of
\* them when the request or the wait raised.
C9_PrintOrder ==
    /\ Printed("name") => (operation /= "" /\ output[1] = <<"name", operation>>)
    /\ (operation /= "" /\ dpc \notin {"requested"}) => Printed("name")
    /\ opDone => Printed("name")
    /\ metadataRead => opDone
    /\ \A k \in DOMAIN ResultLines :
          Printed(ResultLines[k]) => (opDone /\ metadataRead /\ raisedExc = "none")
    /\ raisedExc /= "none" => \A k \in DOMAIN ResultLines : ~Printed(ResultLines[k])

W9_TrainPrintedAll ==
    /\ sample = "train" /\ dpc = "returned" /\ opDone /\ Len(output) = 4

====
